---- MODULE Spec2Model ----
(***************************************************************************)
(* Model of src/extension.ts: the completion provider that offers the      *)
(* property names of a React-Luau element class while the caret is inside  *)
(* the props table of  React.createElement("Class", { ...  or              *)
(* e("Class", { ... .                                                      *)
(*                                                                         *)
(* Text is a sequence of one-character strings.  JavaScript indexes text   *)
(* from 0 and the model from 1, so every index of the model is the         *)
(* JavaScript index plus one; the sentinel -1 of propsStartIndex is 0.     *)
(***************************************************************************)
EXTENDS Integers, Sequences, FiniteSets, TLC

VARIABLES doc, stops, cursor, config, result

vars == <<doc, stops, cursor, config, result>>

(***************************************************************************)
(* Bounds of the model.                                                    *)
(***************************************************************************)
MaxPieces == 3

MaxPadPieces == 2

(***************************************************************************)
(* Strings and characters.                                                 *)
(***************************************************************************)
Chars(s) == [i \in 1..Len(s) |-> Head(SubSeq(s, i, i))]

RECURSIVE Join(_)
Join(cs) == IF cs = <<>> THEN "" ELSE Head(cs) \o Join(Tail(cs))

\* \s of the pattern (the white space that occurs in the modelled texts)
WhiteSpace == {" ", "\n", "\t", "\r"}

\* [A-Za-z0-9_] of the pattern
WordChars ==
  { "a","b","c","d","e","f","g","h","i","j","k","l","m",
    "n","o","p","q","r","s","t","u","v","w","x","y","z",
    "A","B","C","D","E","F","G","H","I","J","K","L","M",
    "N","O","P","Q","R","S","T","U","V","W","X","Y","Z",
    "0","1","2","3","4","5","6","7","8","9","_" }

\* ["'] of the pattern
Quotes == {"\"", "'"}

\* the first alternative of group 1
ReactCreateElement == Chars("React.createElement")

(***************************************************************************)
(* JavaScript values that a property lookup can produce: an array of       *)
(* strings, a function (with its length), a plain object, or undefined.    *)
(***************************************************************************)
Undefined == [t |-> "undefined"]

Arr(items) == [t |-> "array", items |-> items]

Fn(n) == [t |-> "function", length |-> n]

Obj == [t |-> "object"]

\* Built-in defaults (own properties of the object literal).
defaultPropsMap ==
  ("TextLabel" :>
     << "Text", "TextColor3", "TextTransparency", "TextStrokeColor3",
        "TextStrokeTransparency", "Font", "TextSize", "RichText",
        "TextWrapped", "TextXAlignment", "TextYAlignment",
        "BackgroundColor3", "BackgroundTransparency", "BorderSizePixel",
        "BorderColor3", "Size", "Position", "AnchorPoint", "Visible",
        "ZIndex", "LayoutOrder" >>)
  @@
  ("Frame" :>
     << "BackgroundColor3", "BackgroundTransparency", "BorderSizePixel",
        "BorderColor3", "Size", "Position", "AnchorPoint", "Visible",
        "ZIndex", "LayoutOrder", "AutomaticSize" >>)
  @@
  ("ImageLabel" :>
     << "Image", "ImageColor3", "ImageTransparency", "ScaleType",
        "SliceCenter", "BackgroundColor3", "BackgroundTransparency",
        "BorderSizePixel", "BorderColor3", "Size", "Position",
        "AnchorPoint", "Visible", "ZIndex", "LayoutOrder" >>)

\* What a plain object inherits: the members of Object.prototype that a
\* class name ([A-Za-z0-9_]+) can spell.
ObjectPrototype ==
  ("constructor" :> Fn(1)) @@ ("hasOwnProperty" :> Fn(1)) @@
  ("isPrototypeOf" :> Fn(1)) @@ ("propertyIsEnumerable" :> Fn(1)) @@
  ("toString" :> Fn(0)) @@ ("toLocaleString" :> Fn(0)) @@
  ("valueOf" :> Fn(0)) @@ ("__proto__" :> Obj)

\* obj[key] on a plain object: own property, else inherited, else undefined.
Get(obj, key) ==
  IF key \in DOMAIN obj THEN Arr(obj[key])
  ELSE IF key \in DOMAIN ObjectPrototype THEN ObjectPrototype[key]
  ELSE Undefined

\* JavaScript truthiness of a looked-up value: every array (the empty one
\* too), function and object is truthy; undefined is falsy.
Truthy(v) == v.t # "undefined"

\* v.length; a plain object has none (undefined, written -1: it is not 0)
JsLength(v) ==
  IF v.t = "array" THEN Len(v.items)
  ELSE IF v.t = "function" THEN v.length
  ELSE -1

(***************************************************************************)
(* The call pattern                                                        *)
(*   /(React\.createElement|e)\s*\(\s*                                     *)
(*     (?:(["'])([A-Za-z0-9_]+)\2|([A-Za-z0-9_]+))\s*,\s*{/g               *)
(* Every repetition of the pattern is followed by a character outside its  *)
(* class, so at a given start the pattern matches in at most one way and   *)
(* the greedy scan below is what the backtracking engine finds.            *)
(***************************************************************************)
\* text[i], or "" (a character of no class) outside the text
At(text, i) == IF i \in 1..Len(text) THEN text[i] ELSE ""

\* first position from i on whose character is not in class S
SkipWhile(text, i, S) ==
  CHOOSE j \in i..(Len(text) + 1) :
    /\ At(text, j) \notin S
    /\ \A k \in i..(j - 1) : At(text, k) \in S

HasPrefixAt(text, i, lit) ==
  /\ i + Len(lit) - 1 <= Len(text)
  /\ SubSeq(text, i, i + Len(lit) - 1) = lit

\* No match; an unmatched group (undefined) is written "".
NoMatch == [ok |-> FALSE, index |-> 0, last |-> 0, g3 |-> "", g4 |-> ""]

\* where group 1 ends when it starts at i: one past it, or 0
CallTokenEnd(text, i) ==
  IF HasPrefixAt(text, i, ReactCreateElement) THEN i + Len(ReactCreateElement)
  ELSE IF At(text, i) = "e" THEN i + 1
  ELSE 0

\* The match of the pattern that starts exactly at i: index is match.index,
\* last the position of the final "{", g3 and g4 the groups 3 and 4.
MatchAt(text, i) ==
  LET p1     == CallTokenEnd(text, i)
      p2     == SkipWhile(text, p1, WhiteSpace)
      p3     == SkipWhile(text, p2 + 1, WhiteSpace)
      quoted == At(text, p3) \in Quotes
      w0     == IF quoted THEN p3 + 1 ELSE p3
      w1     == SkipWhile(text, w0, WordChars)
      p5     == IF quoted THEN w1 + 1 ELSE w1
      p6     == SkipWhile(text, p5, WhiteSpace)
      p7     == SkipWhile(text, p6 + 1, WhiteSpace)
      ok     == /\ p1 # 0
                /\ At(text, p2) = "("
                /\ w1 > w0
                /\ quoted => At(text, w1) = At(text, p3)
                /\ At(text, p6) = ","
                /\ At(text, p7) = "{"
  IN  IF ok
      THEN [ok |-> TRUE, index |-> i, last |-> p7,
            g3 |-> IF quoted THEN Join(SubSeq(text, w0, w1 - 1)) ELSE "",
            g4 |-> IF quoted THEN "" ELSE Join(SubSeq(text, w0, w1 - 1))]
      ELSE NoMatch

\* pattern.exec(text) with pattern.lastIndex = lastIndex: the leftmost match
Exec(text, lastIndex) ==
  LET S == {i \in lastIndex..Len(text) : MatchAt(text, i).ok}
  IN  IF S = {} THEN NoMatch
      ELSE MatchAt(text, CHOOSE i \in S : \A j \in S : i <= j)

\* the matches the loop  while ((match = pattern.exec(text)) !== null)
\* visits, in order; each exec resumes after the previous match
RECURSIVE ExecAll(_, _)
ExecAll(text, lastIndex) ==
  LET m == Exec(text, lastIndex)
  IN  IF ~m.ok THEN <<>> ELSE <<m>> \o ExecAll(text, m.last + 1)

\* fromString || fromIdent
CapturedClass(m) == IF m.g3 # "" THEN m.g3 ELSE m.g4

RECURSIVE KeepLastClass(_, _)
KeepLastClass(ms, lastClassName) ==
  IF ms = <<>> THEN lastClassName
  ELSE LET className == CapturedClass(Head(ms))
       IN  KeepLastClass(Tail(ms),
                         IF className # "" THEN className ELSE lastClassName)

\* Variant: the loop stops at its first match (the class of the first call).
getEnclosingClassName_First(text) ==
  LET ms == ExecAll(text, 1)
  IN  IF ms = <<>> THEN "" ELSE CapturedClass(ms[1])

\* The class name of the last call before the cursor, or "" (undefined).
getEnclosingClassName(text) == KeepLastClass(ExecAll(text, 1), "")

\* match[0].lastIndexOf("{"), as a position in the match (0 if absent)
LastIndexOf(s, ch) ==
  LET P == {k \in 1..Len(s) : s[k] = ch}
  IN  IF P = {} THEN 0 ELSE CHOOSE k \in P : \A j \in P : j <= k

RECURSIVE KeepLastBrace(_, _, _, _)
KeepLastBrace(text, ms, className, propsStartIndex) ==
  IF ms = <<>> THEN propsStartIndex
  ELSE LET match == Head(ms)
           braceIndexInMatch ==
             LastIndexOf(SubSeq(text, match.index, match.last), "{")
       IN  KeepLastBrace(text, Tail(ms), className,
             IF CapturedClass(match) # className THEN propsStartIndex
             ELSE match.index + braceIndexInMatch - 1)

\* Variant: the first call of the class is kept instead of the last.
PropsStartIndex_First(text, className) ==
  LET ms == ExecAll(text, 1)
      K  == {k \in 1..Len(ms) : CapturedClass(ms[k]) = className}
  IN  IF K = {} THEN 0 ELSE ms[CHOOSE k \in K : \A j \in K : k <= j].last

\* propsStartIndex after the first loop of isInsidePropsObject (0 for -1)
PropsStartIndex(text, className) ==
  KeepLastBrace(text, ExecAll(text, 1), className, 0)

\* first brace at or after i, or 0: the characters between change nothing
NextBrace(text, i) ==
  LET P == {k \in i..Len(text) : text[k] \in {"{", "}"}}
  IN  IF P = {} THEN 0 ELSE CHOOSE k \in P : \A j \in P : k <= j

\* The depth loop from position i with the given depth: whether it ended,
\* where, and the value of depth after each brace it read.
RECURSIVE Walk(_, _, _, _)
Walk(text, propsStartIndex, i, depth) ==
  LET j == NextBrace(text, i)
  IN  IF j = 0 THEN [ended |-> FALSE, at |-> 0, depths |-> <<>>]
      ELSE LET d == IF text[j] = "{" THEN depth + 1 ELSE depth - 1
           IN  IF text[j] = "}" /\ d = 0 /\ j > propsStartIndex
               THEN [ended |-> TRUE, at |-> j, depths |-> <<d>>]
               ELSE LET r == Walk(text, propsStartIndex, j + 1, d)
                    IN  [ended |-> r.ended, at |-> r.at,
                         depths |-> <<d>> \o r.depths]

\* Variant: the result of the walk is returned without the negation.
isInsidePropsObject_EndedReturned(text, className) ==
  LET propsStartIndex == PropsStartIndex(text, className)
  IN  IF propsStartIndex = 0 THEN FALSE
      ELSE Walk(text, propsStartIndex, propsStartIndex, 0).ended

\* Variant: a call of the class was found, its braces are not walked.
isInsidePropsObject_NoWalk(text, className) ==
  PropsStartIndex(text, className) # 0

isInsidePropsObject(text, className) ==
  LET propsStartIndex == PropsStartIndex(text, className)
  IN  IF propsStartIndex = 0 THEN FALSE
      ELSE ~Walk(text, propsStartIndex, propsStartIndex, 0).ended

(***************************************************************************)
(* Property resolution and the completion items.                           *)
(***************************************************************************)
\* The setting reactLuauPropsHelper.props: unset, or a map.
Unset == [kind |-> "unset", map |-> <<>>]

Setting(m) == [kind |-> "map", map |-> m]

\* config.get("props", defaultPropsMap) || defaultPropsMap: the built-in map
\* stands in for a setting that is unset (or falsy)
UserMap(cfg) == IF cfg.kind = "map" THEN cfg.map ELSE defaultPropsMap

\* Variant: an empty user list counts as missing.
getPropsForClass_EmptyFallsBack(className, cfg) ==
  LET userMap == UserMap(cfg)
  IN  IF Truthy(Get(userMap, className)) /\ JsLength(Get(userMap, className)) # 0
      THEN Get(userMap, className)
      ELSE Get(defaultPropsMap, className)

\* Variant: the built-in list is looked up first.
getPropsForClass_DefaultFirst(className, cfg) ==
  LET userMap == UserMap(cfg)
  IN  IF Truthy(Get(defaultPropsMap, className))
      THEN Get(defaultPropsMap, className)
      ELSE Get(userMap, className)

\* userMap[className] || defaultPropsMap[className]
getPropsForClass(className, cfg) ==
  LET userMap == UserMap(cfg)
  IN  IF Truthy(Get(userMap, className)) THEN Get(userMap, className)
      ELSE Get(defaultPropsMap, className)

CompletionItem(className, name) ==
  [label      |-> name,
   insertText |-> name \o " = $0",
   detail     |-> className \o " property (React Luau helper)"]

\* props.map(...): a TypeError when props is not an array
buildItemsForProps(className, props) ==
  IF props.t # "array" THEN [kind |-> "TypeError"]
  ELSE [kind  |-> "items",
        items |-> [k \in 1..Len(props.items) |->
                     CompletionItem(className, props.items[k])]]

(***************************************************************************)
(* provideCompletionItems                                                  *)
(***************************************************************************)
maxLookback == 2000

\* document.getText(new Range(new Position(0, 0), position))
TextBefore(document, position) == SubSeq(document, 1, position)

\* Variant: the text is never cut.
Lookback_Whole(textBeforeCursor) == textBeforeCursor

\* the text the scan sees: the trailing maxLookback characters at most
Lookback(textBeforeCursor) ==
  IF Len(textBeforeCursor) > maxLookback
  THEN SubSeq(textBeforeCursor,
              Len(textBeforeCursor) - maxLookback + 1, Len(textBeforeCursor))
  ELSE textBeforeCursor

NoSuggestions == [kind |-> "undefined"]

provideCompletionItems(document, position, cfg) ==
  LET textBeforeCursor == Lookback(TextBefore(document, position))
      className        == getEnclosingClassName(textBeforeCursor)
      props            == getPropsForClass(className, cfg)
  IN  IF className = "" THEN NoSuggestions
      ELSE IF ~Truthy(props) \/ JsLength(props) = 0 THEN NoSuggestions
      ELSE IF ~isInsidePropsObject(textBeforeCursor, className)
           THEN NoSuggestions
      ELSE buildItemsForProps(className, props)

(***************************************************************************)
(* The editor around the provider: text is typed at the end of the         *)
(* document, the caret moves between the places where typing paused, the   *)
(* setting is edited, and the host asks for completions.                   *)
(***************************************************************************)
\* What one keystroke burst adds to the document.
Snippets ==
  { Chars("e(\"Frame\", {"),
    Chars("React.createElement ( TextLabel ,\n{"),
    Chars("e('Foo',{"),
    Chars("type(\"Frame\", {"),
    Chars("e(constructor, {"),
    Chars("e(\"Frame', {"),
    Chars("{ "),
    Chars("}") }

\* The values of the setting: unset, a map that overrides Frame and leaves
\* the other classes out, and a map with an empty list for TextLabel and a
\* class of its own.
Settings ==
  { Unset,
    Setting("Frame" :> <<"Size", "Transparency", "BackgroundColor3">>),
    Setting(("TextLabel" :> <<>>) @@ ("Foo" :> <<"Bar", "Baz">>)) }

Idle == [kind |-> "idle"]

Init ==
  /\ doc = <<>>
  /\ stops = <<0>>
  /\ cursor = 0
  /\ config = Unset
  /\ result = Idle

\* The user types a snippet at the end of the document.
Type(snippet) ==
  /\ Len(stops) <= MaxPieces
  /\ cursor = Len(doc)
  /\ doc' = doc \o snippet
  /\ stops' = Append(stops, Len(doc) + Len(snippet))
  /\ cursor' = Len(doc) + Len(snippet)
  /\ result' = Idle
  /\ UNCHANGED config

\* The caret steps back to where the last snippet began, or returns to the
\* end of the document.
MoveCursor(k) ==
  /\ k \in 1..Len(stops)
  /\ stops[k] # cursor
  /\ cursor' = stops[k]
  /\ result' = Idle
  /\ UNCHANGED <<doc, stops, config>>

\* The user edits the setting reactLuauPropsHelper.props.
Configure(cfg) ==
  /\ cfg # config
  /\ config' = cfg
  /\ result' = Idle
  /\ UNCHANGED <<doc, stops, cursor>>

\* The host calls provideCompletionItems(document, position).
Query ==
  /\ result = Idle
  /\ result' = provideCompletionItems(doc, cursor, config)
  /\ UNCHANGED <<doc, stops, cursor, config>>

Next ==
  \/ \E snippet \in Snippets : Type(snippet)
  \/ \E k \in (Len(stops) - 1)..Len(stops) : MoveCursor(k)
  \/ \E cfg \in Settings : Configure(cfg)
  \/ Query

Spec == Init /\ [][Next]_vars

(***************************************************************************)
(* The same editor on a long document: besides snippets the user pastes    *)
(* blocks of comment rule, long enough to push a call out of the look-back *)
(* window.                                                                 *)
(***************************************************************************)
CallSnippet == Chars("e(\"Frame\", {")

LongSnippets == {CallSnippet, Chars("}")}

\* block lengths that leave a preceding call just inside the window, cut
\* its first character off, and push it out altogether
PadSizes ==
  { maxLookback - Len(CallSnippet),
    maxLookback - Len(CallSnippet) + 1,
    maxLookback }

\* The user pastes a block of n dashes at the end of the document.
Pad(n) ==
  /\ Len(stops) <= MaxPadPieces
  /\ cursor = Len(doc)
  /\ Len(doc) <= maxLookback
  /\ doc' = doc \o [k \in 1..n |-> "-"]
  /\ stops' = Append(stops, Len(doc) + n)
  /\ cursor' = Len(doc) + n
  /\ result' = Idle
  /\ UNCHANGED config

TypeLong(snippet) ==
  /\ Len(stops) <= MaxPadPieces
  /\ Type(snippet)

NextLong ==
  \/ \E snippet \in LongSnippets : TypeLong(snippet)
  \/ \E n \in PadSizes : Pad(n)
  \/ \E k \in (Len(stops) - 1)..Len(stops) : MoveCursor(k)
  \/ Query

SpecLong == Init /\ [][NextLong]_vars

(***************************************************************************)
(* Vocabulary of the properties, stated on the text itself and not through *)
(* the loops of the provider.                                              *)
(***************************************************************************)
\* the text the last query scanned
Window == Lookback(TextBefore(doc, cursor))

\* a query has answered for the present document, caret and setting
Answered == result # Idle

\* every position of the text at which the call pattern matches
MatchStarts(text) == {i \in 1..Len(text) : MatchAt(text, i).ok}

Greatest(S) == CHOOSE i \in S : \A j \in S : j <= i

\* the opening brace of the call that starts at i
BraceOf(text, i) == CHOOSE k \in i..Len(text) : text[k] = "{" /\ \A j \in i..(k - 1) : text[j] # "{"

\* the class written as first argument of the call that starts at i, read
\* off the text: the content of the quotes, else the bare identifier
WrittenClass(text, i) ==
  LET paren == CHOOSE k \in i..Len(text) : text[k] = "(" /\ \A j \in i..(k - 1) : text[j] # "("
      a     == CHOOSE k \in (paren + 1)..Len(text) :
                 text[k] \notin WhiteSpace /\ \A j \in (paren + 1)..(k - 1) : text[j] \in WhiteSpace
  IN  IF text[a] \in Quotes
      THEN LET b == CHOOSE k \in (a + 1)..Len(text) :
                      text[k] = text[a] /\ \A j \in (a + 1)..(k - 1) : text[j] # text[a]
           IN  Join(SubSeq(text, a + 1, b - 1))
      ELSE LET b == CHOOSE k \in a..Len(text) :
                      text[k] \notin WordChars /\ \A j \in a..(k - 1) : text[j] \in WordChars
           IN  Join(SubSeq(text, a, b - 1))

\* number of characters ch in text[a..b]
Count(text, a, b, ch) == Cardinality({k \in a..b : text[k] = ch})

\* text[j] is the closing brace that matches the opening brace text[s]
ClosesAt(text, s, j) ==
  /\ j > s
  /\ text[j] = "}"
  /\ Count(text, s, j, "{") = Count(text, s, j, "}")
  /\ \A k \in s..(j - 1) : Count(text, s, k, "{") > Count(text, s, k, "}")

\* the opening brace text[s] is closed somewhere in the text
Closed(text, s) == \E j \in (s + 1)..Len(text) : ClosesAt(text, s, j)

\* the class resolves to a non-empty list of property names
HasProps(className, cfg) ==
  /\ getPropsForClass(className, cfg).t = "array"
  /\ getPropsForClass(className, cfg).items # <<>>

\* the labels of the candidates, in order
Labels(items) == [k \in 1..Len(items) |-> items[k].label]

(***************************************************************************)
(* C1.  When the scanned text holds exactly one match of the call pattern, *)
(* its opening brace is not closed before the caret and its class resolves *)
(* to a non-empty list, the answer is one candidate per property of that   *)
(* list, in the order of the list, each labelled with its property name.   *)
(***************************************************************************)
C1_OneOpenCallOffersItsProps ==
  LET w  == Window
      S  == MatchStarts(w)
      i  == Greatest(S)
      cl == WrittenClass(w, i)
  IN  (/\ Answered
       /\ Cardinality(S) = 1
       /\ ~Closed(w, BraceOf(w, i))
       /\ HasProps(cl, config))
      => /\ result.kind = "items"
         /\ Labels(result.items) = getPropsForClass(cl, config).items

\* one call, a nested table opened and closed inside its props, candidates
C1_Witness ==
  /\ Answered
  /\ Cardinality(MatchStarts(Window)) = 1
  /\ Count(Window, BraceOf(Window, Greatest(MatchStarts(Window))),
           Len(Window), "}") >= 1
  /\ ~Closed(Window, BraceOf(Window, Greatest(MatchStarts(Window))))
  /\ result.kind = "items"
  /\ Len(result.items) = 11

(***************************************************************************)
(* C2.  When the document holds exactly one call, its class resolves to a  *)
(* non-empty list and the closing brace that matches its opening brace     *)
(* lies in the text before the caret (the caret is just behind that brace  *)
(* or further on), the answer is no candidates.                            *)
(***************************************************************************)
C2_ClosedCallOffersNothing ==
  LET S == MatchStarts(doc)
      i == Greatest(S)
  IN  (/\ Answered
       /\ Cardinality(S) = 1
       /\ HasProps(WrittenClass(doc, i), config)
       /\ \E j \in 1..cursor : ClosesAt(doc, BraceOf(doc, i), j))
      => result = NoSuggestions

\* one call with props, closed before the caret, and the query has answered
C2_Witness ==
  /\ Answered
  /\ Cardinality(MatchStarts(doc)) = 1
  /\ HasProps(WrittenClass(doc, Greatest(MatchStarts(doc))), config)
  /\ \E j \in 1..cursor :
       ClosesAt(doc, BraceOf(doc, Greatest(MatchStarts(doc))), j)
  /\ result = NoSuggestions

C4_UserListWins ==
  LET className == getEnclosingClassName(Window)
  IN  (/\ result.kind = "items"
       /\ config.kind = "map"
       /\ className \in DOMAIN config.map
       /\ config.map[className] # <<>>)
      => /\ Labels(result.items) = config.map[className]
         /\ \A k \in 1..Len(result.items) :
              result.items[k] = CompletionItem(className, config.map[className][k])

\* candidates for a class whose built-in list differs from the user's list
C4_Witness ==
  /\ result.kind = "items"
  /\ config.kind = "map"
  /\ getEnclosingClassName(Window) \in DOMAIN config.map
  /\ getEnclosingClassName(Window) \in DOMAIN defaultPropsMap
  /\ config.map[getEnclosingClassName(Window)]
       # defaultPropsMap[getEnclosingClassName(Window)]
  /\ Labels(result.items) = config.map[getEnclosingClassName(Window)]

(***************************************************************************)
(* C5.  When the scanned text holds matches of the call pattern, the class *)
(* resolved is the one written in the match that starts last (the content  *)
(* of the quotes, else the bare identifier), and candidates, when          *)
(* returned, are those of that class and name it.                          *)
(***************************************************************************)
C5_LastCallDecides ==
  LET w == Window
      S == MatchStarts(w)
      cl == WrittenClass(w, Greatest(S))
  IN  Answered
      => /\ S # {} => getEnclosingClassName(w) = cl
         /\ result.kind = "items"
            => /\ S # {}
               /\ Labels(result.items) = getPropsForClass(cl, config).items
               /\ \A k \in 1..Len(result.items) :
                    result.items[k].detail
                      = cl \o " property (React Luau helper)"

\* two calls of different classes, the first closed, candidates of the second
C5_Witness ==
  /\ result.kind = "items"
  /\ Cardinality(MatchStarts(Window)) = 2
  /\ \E i \in MatchStarts(Window) :
       /\ i # Greatest(MatchStarts(Window))
       /\ Closed(Window, BraceOf(Window, i))
       /\ WrittenClass(Window, i)
            # WrittenClass(Window, Greatest(MatchStarts(Window)))
       /\ HasProps(WrittenClass(Window, i), config)
  /\ result.items[1].detail
       = WrittenClass(Window, Greatest(MatchStarts(Window)))
           \o " property (React Luau helper)"

(***************************************************************************)
(* C6.  When the caret is inside the still open props table of a call,     *)
(* the innermost such call, and the class of that call resolves to a       *)
(* non-empty list, the answer is the candidates of that class, whatever    *)
(* other calls the scanned text holds.                                     *)
(***************************************************************************)
C6_InnermostOpenCallOffersItsProps ==
  LET w    == Window
      Open == {i \in MatchStarts(w) : ~Closed(w, BraceOf(w, i))}
      cl   == WrittenClass(w, Greatest(Open))
  IN  (Answered /\ Open # {} /\ HasProps(cl, config))
      => result = buildItemsForProps(cl, getPropsForClass(cl, config))

(***************************************************************************)
(* C7.  Candidates are returned, and a class is resolved, only when the    *)
(* scanned text holds a call whose function is spelled exactly             *)
(* React.createElement or e: the match of the pattern does not continue a  *)
(* longer name.                                                            *)
(***************************************************************************)
C7_OnlyExactCallTokens ==
  LET w     == Window
      Exact == {i \in MatchStarts(w) : i = 1 \/ w[i - 1] \notin (WordChars \cup {"."})}
  IN  (Answered /\ Exact = {})
      => /\ getEnclosingClassName(w) = ""
         /\ result = NoSuggestions

(***************************************************************************)
(* C9.  Every query ends in no suggestions or in a non-empty list of       *)
(* candidates, never in an error.                                          *)
(***************************************************************************)
C9_NoErrorOutcome ==
  Answered
  => \/ result = NoSuggestions
     \/ result.kind = "items" /\ result.items # <<>>

(***************************************************************************)
(* C10.  When a class is resolved, the containment check finds a match of  *)
(* that class, starts at the opening brace of the match that starts last   *)
(* in the scanned text, and its depth counter stays at least 1 until it    *)
(* first reaches 0, where the walk stops; it is never negative.            *)
(***************************************************************************)
C10_WalkStartsAtLastCall ==
  LET w  == Window
      cl == getEnclosingClassName(w)
      s  == PropsStartIndex(w, cl)
      r  == Walk(w, s, s, 0)
  IN  (Answered /\ cl # "")
      => /\ s # 0
         /\ s = BraceOf(w, Greatest(MatchStarts(w)))
         /\ Len(r.depths) >= 1
         /\ \A k \in 1..Len(r.depths) :
              /\ r.depths[k] >= 0
              /\ k < Len(r.depths) => r.depths[k] >= 1
         /\ r.ended <=> r.depths[Len(r.depths)] = 0
         /\ r.ended => ClosesAt(w, s, r.at)

\* two calls of the same class, the earlier one closed, the later one
\* holding a nested table, and the query has answered
C10_Witness ==
  /\ Answered
  /\ Cardinality(MatchStarts(Window)) = 2
  /\ \A i \in MatchStarts(Window) :
       WrittenClass(Window, i) = getEnclosingClassName(Window)
  /\ \E i \in MatchStarts(Window) :
       i # Greatest(MatchStarts(Window)) /\ Closed(Window, BraceOf(Window, i))
  /\ Len(Walk(Window, BraceOf(Window, Greatest(MatchStarts(Window))),
              BraceOf(Window, Greatest(MatchStarts(Window))), 0).depths) >= 1
  /\ result.kind = "items"

(***************************************************************************)
(* C8.  When the text before the caret is longer than maxLookback, the     *)
(* text scanned is exactly its last maxLookback characters, and when every *)
(* call of the text before the caret ends before that point the answer is  *)
(* no candidates, also when such a call is still open at the caret.        *)
(* Shorter text is scanned whole.                                          *)
(***************************************************************************)
C8_LookbackTruncates ==
  LET t   == TextBefore(doc, cursor)
      w   == Lookback(t)
      cut == Len(t) - maxLookback
  IN  /\ Len(t) <= maxLookback => w = t
      /\ Len(t) > maxLookback
         => /\ Len(w) = maxLookback
            /\ \A k \in 1..maxLookback : w[k] = t[cut + k]
            /\ (Answered /\ \A i \in MatchStarts(t) : BraceOf(t, i) <= cut)
               => /\ getEnclosingClassName(w) = ""
                  /\ result = NoSuggestions

\* the only call of a long text lies before the window and is still open
\* at the caret, and the query has answered with no candidates
C8_Witness ==
  LET t == TextBefore(doc, cursor)
  IN  /\ Answered
      /\ Len(t) > maxLookback
      /\ Cardinality(MatchStarts(t)) = 1
      /\ BraceOf(t, Greatest(MatchStarts(t))) <= Len(t) - maxLookback
      /\ Count(t, 1, Len(t), "}") = 0
      /\ HasProps(WrittenClass(t, Greatest(MatchStarts(t))), config)
      /\ result = NoSuggestions

====
